---- MODULE Spec2Model ----
(***************************************************************************)
(* DocConnect call-establishment subsystem: the signaling server           *)
(* (server/src/socket.js) as a state machine.                              *)
(*                                                                         *)
(* Every socket.io event handler runs to completion, so each handler is    *)
(* one action.  The state is the two registries of socket.js (users and    *)
(* rooms), the socket.io adapter's room table that socket.join /           *)
(* socket.leave / io.to / socket.to work on, the set of live connections,  *)
(* and the messages the last handler emitted.                              *)
(*                                                                         *)
(* The client (client/src/context/SocketContext.tsx) is the SocketProvider *)
(* component: its React state, the values its callbacks and listeners      *)
(* closed over at the last render, the negotiation objects it has created  *)
(* and the capture streams it was granted.                                 *)
(***************************************************************************)
EXTENDS Integers, Sequences, FiniteSets, TLC

\* ------------------------------------------------------------------ bounds
\* Longest member list a room is driven to (joinRoom itself has no limit).
MaxMembers == 2

\* --------------------------------------------------------------- universes
\* Connection ids (socket.id), in a fixed order used to list recipients.
SocketIds == <<"c1", "c2", "c3">>
Sockets == {SocketIds[i] : i \in 1..Len(SocketIds)}

\* Property names every JavaScript object inherits from Object.prototype:
\* `rooms[name]` is truthy for them although `rooms` has no such own key.
ProtoKeys == {"constructor"}

\* Caller-supplied room ids: an appointment id and a string that equals a
\* connection id.
RoomIds == {"r1", "c1"}

\* Room ids of the specification that exercises inherited property names.
ProtoRoomIds == {"r1"} \cup ProtoKeys
ProtoSockets == {"c1", "c2"}

\* Room ids of the specification that exercises the relay.
RelayRoomIds == {"c1"}

\* User ids recorded by userJoined and joinRoom.
UserIds == {"u1"}

\* User ids a leaveRoom payload carries.
LeaveUserIds == UserIds \cup {"u2"}

\* Caller-supplied `to` of a signaling envelope: connection ids, of which
\* "c1" is also the name of a room.
Targets == Sockets

\* Caller-supplied `from` of a signaling envelope.
Froms == {"c1", "forged"}

\* Offer / answer / candidate payloads.
Payloads == {"sdp1", "sdp2"}

\* Every name the socket.io adapter is asked about.
RoomNames == Sockets \cup RoomIds \cup ProtoRoomIds

None == "none"

VARIABLES
    connected,  \* sockets whose 'connection' event has fired and that are open
    closed,     \* sockets whose 'disconnect' handler has run
    users,      \* socket.js `users`: socket id -> user id
    rooms,      \* socket.js `rooms`: own keys in insertion order, each with its member list
    adapter,    \* socket.io adapter: room name -> set of socket ids in it
    out,        \* messages emitted by the last handler, in emission order
    last,       \* the event the last handler was invoked with (see Event)
    threw       \* TRUE iff the last handler ended by throwing

serverVars == <<connected, closed, users, rooms, adapter, out, last, threw>>

\* ------------------------------------------------------------ the client
\* The client's own connection id and the ids of the remote connections.
LocalId == "c1"
RemoteIdSeq == <<"c2", "c3">>
RemoteIds == {RemoteIdSeq[i] : i \in 1..Len(RemoteIdSeq)}

\* The room the page joins (an appointment id).
ClientRoomIds == {"r1"}

\* How many times the page calls startCall.
MaxCalls == 2

\* Longest member list the client is sent or accumulates.
MaxUsers == 2

\* How deep createPeerConnection may re-enter itself before the engine throws
\* RangeError (maximum call stack size exceeded).
MaxStack == 3

NoStream == 0
NoPeer == 0

VARIABLES
    cl,         \* the provider's React state, queued updates applied
    rendered,   \* the state as of the last render: what the closures see
    sessions,   \* the negotiation objects (simple-peer instances) created so far
    media,      \* capture streams: tracks still live, pending getUserMedia calls
    mounted,    \* the provider is mounted
    authUser,   \* useAuth().user
    clast       \* the last client step: its kind, arguments, emissions, outcome

clientVars == <<cl, rendered, sessions, media, mounted, authUser, clast>>

\* The ids the client's socket gets: at its first connection and after a
\* transport drop.
LinkIds == <<"c1", "c3">>

\* The other connection of the room.
PeerSockets == {"c2"}

\* Most messages in flight in one direction between client and server.
MaxInFlight == 1

VARIABLES
    link,       \* the client's transport: its socket id, the packets in flight
    tried,      \* remote ids createPeerConnection was called for as initiator
    page        \* the VideoCall page: its React state, its initializeCall runs

vars == <<connected, closed, users, rooms, adapter, out, last, threw,
          cl, rendered, sessions, media, mounted, authUser, clast, link, tried,
          page>>

\* useState initial values of the page (part_002 lines 42-47), after its first
\* render: hasMediaPermissions with the value the last render saw, the
\* initializeCall runs waiting for the appointment, the number of runs begun.
\* usersNew tells that setUsers was given a new array since the last render;
\* denied tells that startCall was refused the camera and Retry was not
\* clicked since.
PageInitial ==
    [hasMediaPermissions |-> FALSE, seenPermissions |-> FALSE, checked |-> FALSE,
     error |-> FALSE, denied |-> FALSE, usersNew |-> FALSE, inits |-> <<>>,
     started |-> 0]

\* the socket before its first connection; emits are buffered until it connects
LinkInit(buffered) ==
    /\ link = [id |-> None, gen |-> 0, up |-> buffered, down |-> <<>>, fresh |-> FALSE]
    /\ tried = {}
    /\ page = PageInitial

\* a step of the server alone
ServerOnly == UNCHANGED <<clientVars, link, tried, page>>

\* a createPeerConnection without an incoming offer (lines 76 and 254) asks
\* for the initiator role
Initiated ==
    tried' = tried \cup (IF clast'.op \in {"roomUsers", "mediaGranted"}
                         THEN {clast'.calls[i] : i \in 1..Len(clast'.calls)}
                         ELSE {})

\* a step of the client, its transport apart
NoServer == UNCHANGED <<serverVars, link>> /\ Initiated

\* a step of the provider alone
ClientOnly == NoServer /\ UNCHANGED page

\* useState initial values (lines 36-42); peersNew tells that setPeers was
\* given a new Map object since the last render
InitialState ==
    [users |-> <<>>, peers |-> <<>>, peersNew |-> FALSE, localStream |-> NoStream,
     remoteStreams |-> <<>>, currentRoom |-> None, isCallActive |-> FALSE]

ClientEvent(op, arg, emitted, thrown, calls, before) ==
    [op |-> op, arg |-> arg, emitted |-> emitted, threw |-> thrown,
     calls |-> calls, before |-> before]

\* the provider after its first render, socket connected
ClientInit(u) ==
    /\ cl = InitialState
    /\ rendered = InitialState
    /\ sessions = <<>>
    /\ media = [live |-> {}, granted |-> 0, calls |-> 0, pending |-> <<>>]
    /\ mounted = TRUE
    /\ authUser = u
    /\ clast = ClientEvent("init", None, <<>>, FALSE, <<>>, <<>>)

\* ------------------------------------------------------- the rooms object
\* `rooms` is a plain object: a sequence of [key, members] in insertion order.
RoomKeys(rs) == [i \in 1..Len(rs) |-> rs[i].key]

HasRoom(rs, r) == \E i \in 1..Len(rs) : rs[i].key = r

\* rooms[r] for an own key
Members(rs, r) == rs[CHOOSE i \in 1..Len(rs) : rs[i].key = r].members

\* the truthiness of `rooms[r]`: an own key (arrays are truthy, even empty
\* ones) or a property inherited from Object.prototype
Truthy(rs, r) == HasRoom(rs, r) \/ r \in ProtoKeys

\* rooms[r] = m
SetRoom(rs, r, m) ==
    IF HasRoom(rs, r)
    THEN [i \in 1..Len(rs) |-> IF rs[i].key = r THEN [key |-> r, members |-> m] ELSE rs[i]]
    ELSE Append(rs, [key |-> r, members |-> m])

\* delete rooms[r]
DeleteRoom(rs, r) == SelectSeq(rs, LAMBDA e : e.key # r)

\* the socket ids of a member list
MemberIds(m) == {m[i].socketId : i \in 1..Len(m)}

\* a filter that keeps every member, the connection itself included
FilterOutNothing(m, id) == m

\* a removal that takes out one entry of id only (splice at indexOf)
FilterOutFirst(m, id) ==
    IF \E i \in 1..Len(m) : m[i].socketId = id
    THEN LET k == CHOOSE i \in 1..Len(m) :
                    /\ m[i].socketId = id
                    /\ \A j \in 1..(i-1) : m[j].socketId # id
         IN  SubSeq(m, 1, k-1) \o SubSeq(m, k+1, Len(m))
    ELSE m

\* rooms[r].filter(user => user.socketId !== id)
FilterOut(m, id) == SelectSeq(m, LAMBDA e : e.socketId # id)

\* ------------------------------------------------------ socket.io adapter
\* socket.join(r)
AdapterJoin(ad, c, r) == [ad EXCEPT ![r] = @ \cup {c}]

\* socket.leave(r)
AdapterLeave(ad, c, r) == [ad EXCEPT ![r] = @ \ {c}]

\* the socket leaves every room when its transport closes
AdapterLeaveAll(ad, c) == [n \in DOMAIN ad |-> ad[n] \ {c}]

\* one message per socket of S, listed in SocketIds order
EmitTo(S, event, data) ==
    LET s == SelectSeq(SocketIds, LAMBDA x : x \in S)
    IN  [i \in 1..Len(s) |-> [to |-> s[i], event |-> event, data |-> data]]

\* socket.emit(event, data)
SocketEmit(c, event, data) == EmitTo({c}, event, data)

\* socket.to(r).emit(event, data): the sockets in adapter room r except the sender
SocketToEmit(ad, c, r, event, data) == EmitTo(ad[r] \ {c}, event, data)

\* io.to(t).emit(event, data): every socket in adapter room t
IoToEmit(ad, t, event, data) == EmitTo(ad[t], event, data)

\* rooms[r] as a handler finds it on entry: the member list, empty when r is
\* no own key
MembersOrEmpty(rs, r) == IF HasRoom(rs, r) THEN Members(rs, r) ELSE <<>>

\* The event a handler is invoked with: the socket, the fields of the payload
\* and, for joinRoom and leaveRoom, the member list of the room on entry.  For
\* disconnect, userId is the handler's `users[socket.id]` and `before` is the
\* whole rooms object on entry.
Event(op, c, roomId, userId, to, from, payload, before) ==
    [op |-> op, sid |-> c, roomId |-> roomId, userId |-> userId,
     to |-> to, from |-> from, payload |-> payload, before |-> before]

\* -------------------------------------------------------------------- Init
Init ==
    /\ connected = {}
    /\ closed = {}
    /\ users = <<>>
    /\ rooms = <<>>
    /\ adapter = [n \in RoomNames |-> {}]
    /\ out = <<>>
    /\ last = Event("init", None, None, None, None, None, None, <<>>)
    /\ threw = FALSE
    /\ ClientInit(None)
    /\ LinkInit(<<>>)

\* ----------------------------------------------------------------- actions
\* io.on('connection'): a new socket; socket.io puts it in the room named by its id
Connection(c) ==
    /\ c \notin connected \cup closed
    /\ connected' = connected \cup {c}
    /\ adapter' = AdapterJoin(adapter, c, c)
    /\ out' = <<>>
    /\ last' = Event("connection", c, None, None, None, None, None, <<>>)
    /\ threw' = FALSE
    /\ UNCHANGED <<closed, users, rooms>>

\* socket.on('userJoined')
UserJoined(c, u) ==
    /\ c \in connected
    /\ users' = [x \in DOMAIN users \cup {c} |-> IF x = c THEN u ELSE users[x]]
    /\ out' = <<>>
    /\ last' = Event("userJoined", c, None, u, None, None, None, <<>>)
    /\ threw' = FALSE
    /\ UNCHANGED <<connected, closed, rooms, adapter>>

\* a join that replaces the member list instead of appending to it
PushMemberOverwrites(rs, r, c, u) ==
    SetRoom(rs, r, <<[socketId |-> c, userId |-> u]>>)

\* a join that evicts the connection from every other room first
PushMemberEvicts(rs, r, c, u) ==
    LET kept == SelectSeq([i \in 1..Len(rs) |->
                              IF rs[i].key = r THEN rs[i]
                              ELSE [key |-> rs[i].key,
                                    members |-> SelectSeq(rs[i].members,
                                                   LAMBDA e : e.socketId # c)]],
                          LAMBDA e : e.key = r \/ Len(e.members) > 0)
        m == IF \E i \in 1..Len(kept) : kept[i].key = r
             THEN kept[CHOOSE i \in 1..Len(kept) : kept[i].key = r].members
             ELSE <<>>
        entry == [key |-> r, members |-> Append(m, [socketId |-> c, userId |-> u])]
    IN  IF \E i \in 1..Len(kept) : kept[i].key = r
        THEN [i \in 1..Len(kept) |-> IF kept[i].key = r THEN entry ELSE kept[i]]
        ELSE Append(kept, entry)

\* rooms after lines 24-32 of joinRoom
PushMember(rs, r, c, u) ==
    LET rs1 == IF Truthy(rs, r) THEN rs ELSE SetRoom(rs, r, <<>>)
    IN  SetRoom(rs1, r, Append(Members(rs1, r), [socketId |-> c, userId |-> u]))

\* socket.on('joinRoom')
JoinRoom(c, r, u) ==
    /\ c \in connected
    /\ HasRoom(rooms, r) => Len(Members(rooms, r)) < MaxMembers
    /\ adapter' = AdapterJoin(adapter, c, r)
    /\ last' = Event("joinRoom", c, r, u, None, None, None, MembersOrEmpty(rooms, r))
    /\ IF r \in ProtoKeys /\ ~HasRoom(rooms, r)
       THEN \* rooms[r] is an inherited function: rooms[r].push is not a function
            /\ threw' = TRUE
            /\ out' = <<>>
            /\ UNCHANGED rooms
       ELSE /\ threw' = FALSE
            /\ rooms' = PushMember(rooms, r, c, u)
            /\ out' = SocketEmit(c, "roomUsers", FilterOut(Members(rooms', r), c))
                      \o SocketToEmit(adapter', c, r, "userJoinedRoom",
                                      [socketId |-> c, userId |-> u])
    /\ UNCHANGED <<connected, closed, users>>

\* a relay that forwards the caller-supplied `from`
SendOfferTrustsFrom(c, to, from, offer) ==
    /\ c \in connected
    /\ out' = IoToEmit(adapter, to, "receiveOffer", [offer |-> offer, from |-> from])
    /\ last' = Event("sendOffer", c, None, None, to, from, offer, <<>>)
    /\ threw' = FALSE
    /\ UNCHANGED <<connected, closed, users, rooms, adapter>>

\* socket.on('sendOffer')
SendOffer(c, to, from, offer) ==
    /\ c \in connected
    /\ out' = IoToEmit(adapter, to, "receiveOffer", [offer |-> offer, from |-> c])
    /\ last' = Event("sendOffer", c, None, None, to, from, offer, <<>>)
    /\ threw' = FALSE
    /\ UNCHANGED <<connected, closed, users, rooms, adapter>>

\* a relay that keeps the caller-supplied `from` of an answer as the sender's identity
SendAnswerRecordsSender(c, to, from, answer) ==
    /\ c \in connected
    /\ users' = [x \in DOMAIN users \cup {c} |-> IF x = c THEN from ELSE users[x]]
    /\ out' = IoToEmit(adapter, to, "receiveAnswer", [answer |-> answer, from |-> c])
    /\ last' = Event("sendAnswer", c, None, None, to, from, answer, <<>>)
    /\ threw' = FALSE
    /\ UNCHANGED <<connected, closed, rooms, adapter>>

\* socket.on('sendAnswer')
SendAnswer(c, to, from, answer) ==
    /\ c \in connected
    /\ out' = IoToEmit(adapter, to, "receiveAnswer", [answer |-> answer, from |-> c])
    /\ last' = Event("sendAnswer", c, None, None, to, from, answer, <<>>)
    /\ threw' = FALSE
    /\ UNCHANGED <<connected, closed, users, rooms, adapter>>

\* socket.on('sendIceCandidate')
SendIceCandidate(c, to, from, candidate) ==
    /\ c \in connected
    /\ out' = IoToEmit(adapter, to, "receiveIceCandidate",
                       [candidate |-> candidate, from |-> c])
    /\ last' = Event("sendIceCandidate", c, None, None, to, from, candidate, <<>>)
    /\ threw' = FALSE
    /\ UNCHANGED <<connected, closed, users, rooms, adapter>>

\* a leave that keeps the emptied room
RemoveMemberKeepsEmpty(rs, r, c) == SetRoom(rs, r, FilterOut(Members(rs, r), c))

\* rooms after lines 77-81 of leaveRoom, for an own key r
RemoveMember(rs, r, c) ==
    LET m == FilterOut(Members(rs, r), c)
    IN  IF Len(m) = 0 THEN DeleteRoom(rs, r) ELSE SetRoom(rs, r, m)

\* the notification of lines 82-88 of leaveRoom, for an own key r
LeaveNotice(rs, ad, r, c, u) ==
    IF Len(FilterOut(Members(rs, r), c)) = 0
    THEN <<>>
    ELSE SocketToEmit(ad, c, r, "userLeftRoom", [socketId |-> c, userId |-> u])

\* socket.on('leaveRoom')
LeaveRoom(c, r, u) ==
    /\ c \in connected
    /\ last' = Event("leaveRoom", c, r, u, None, None, None, MembersOrEmpty(rooms, r))
    /\ IF HasRoom(rooms, r)
       THEN /\ rooms' = RemoveMember(rooms, r, c)
            /\ out' = LeaveNotice(rooms, adapter, r, c, u)
            /\ adapter' = AdapterLeave(adapter, c, r)
            /\ threw' = FALSE
       ELSE IF r \in ProtoKeys
       THEN \* rooms[r] is an inherited function: rooms[r].filter is not a function
            /\ threw' = TRUE
            /\ out' = <<>>
            /\ UNCHANGED <<rooms, adapter>>
       ELSE /\ threw' = FALSE
            /\ out' = <<>>
            /\ adapter' = AdapterLeave(adapter, c, r)
            /\ UNCHANGED rooms
    /\ UNCHANGED <<connected, closed, users>>

\* one iteration of the forEach of lines 100-120 of disconnect, on [rooms, out]
CleanRoom(acc, ad, r, c) ==
    IF HasRoom(acc.rooms, r) /\ c \in MemberIds(Members(acc.rooms, r))
    THEN LET m == Members(acc.rooms, r)
             userInRoom == m[CHOOSE i \in 1..Len(m) :
                               /\ m[i].socketId = c
                               /\ \A j \in 1..(i-1) : m[j].socketId # c]
             rest == FilterOut(m, c)
         IN  [rooms |-> IF Len(rest) = 0 THEN DeleteRoom(acc.rooms, r)
                                         ELSE SetRoom(acc.rooms, r, rest),
              out |-> acc.out \o SocketToEmit(ad, c, r, "userLeftRoom",
                                 [socketId |-> c, userId |-> userInRoom.userId])]
    ELSE acc

\* Object.keys(rooms).forEach(...) of disconnect: the keys as they were at the
\* start, in insertion order
RECURSIVE CleanRooms(_, _, _, _)
CleanRooms(acc, ad, keys, c) ==
    IF keys = <<>> THEN acc
    ELSE CleanRooms(CleanRoom(acc, ad, Head(keys), c), ad, Tail(keys), c)

\* users[id], None when id is no key
UserOf(us, c) == IF c \in DOMAIN us THEN us[c] ELSE None

\* a disconnect that keeps the identity mapping
DeleteUserKeeps(us, c) == us

\* delete users[id]
DeleteUser(us, c) == [x \in DOMAIN us \ {c} |-> us[x]]

\* socket.on('disconnect'): socket.io has taken the socket out of every adapter
\* room before the handler runs
Disconnect(c) ==
    /\ c \in connected
    /\ connected' = connected \ {c}
    /\ closed' = closed \cup {c}
    /\ adapter' = AdapterLeaveAll(adapter, c)
    /\ LET res == CleanRooms([rooms |-> rooms, out |-> <<>>], adapter',
                             RoomKeys(rooms), c)
       IN  /\ rooms' = res.rooms
           /\ out' = res.out
    /\ users' = DeleteUser(users, c)
    /\ last' = Event("disconnect", c, None, UserOf(users, c), None, None, None, rooms)
    /\ threw' = FALSE

\* the handlers of the users and rooms registries, for sockets S and room ids R
Registry(S, R) ==
    \/ \E c \in S : Connection(c) /\ ServerOnly
    \/ \E c \in S, u \in UserIds : UserJoined(c, u) /\ ServerOnly
    \/ \E c \in S, r \in R, u \in UserIds : JoinRoom(c, r, u) /\ ServerOnly
    \/ \E c \in S, r \in R, u \in LeaveUserIds : LeaveRoom(c, r, u) /\ ServerOnly
    \/ \E c \in S : Disconnect(c) /\ ServerOnly

\* the handlers of the signaling relay
Relay(S) ==
    \/ \E c \in S, t \in Targets, f \in Froms, p \in Payloads : SendOffer(c, t, f, p) /\ ServerOnly
    \/ \E c \in S, t \in Targets, f \in Froms, p \in Payloads : SendAnswer(c, t, f, p) /\ ServerOnly
    \/ \E c \in S, t \in Targets, f \in Froms, p \in Payloads : SendIceCandidate(c, t, f, p) /\ ServerOnly

\* Rooms registry: three connections, two rooms.
Next == Registry(Sockets, RoomIds)

Spec == Init /\ [][Next]_vars

\* Signaling relay: three connections, one room whose id is a connection id.
NextRelay == Registry(Sockets, RelayRoomIds) \/ Relay(Sockets)

SpecRelay == Init /\ [][NextRelay]_vars

\* Room ids that are inherited property names: two connections.
NextProto == Registry(ProtoSockets, ProtoRoomIds)

SpecProto == Init /\ [][NextProto]_vars

\* ===================================================================
\*                    The client: SocketProvider
\* ===================================================================
NoOffer == None
Undefined == "undefined"

\* Map.set / Map.delete / the values of a Map
MapSet(m, k, v) == [x \in DOMAIN m \cup {k} |-> IF x = k THEN v ELSE m[x]]
MapDelete(m, k) == [x \in DOMAIN m \ {k} |-> m[x]]
MapValues(m) == {m[k] : k \in DOMAIN m}

\* peer.destroy() on the negotiation objects ids
DestroyAll(ss, ids) ==
    [i \in 1..Len(ss) |-> IF i \in ids THEN [ss[i] EXCEPT !.destroyed = TRUE] ELSE ss[i]]

\* peer.signal(data) on negotiation object i: applied, and misapplied when
\* the object had been destroyed before
Signal(ss, i) ==
    [ss EXCEPT ![i] = [@ EXCEPT !.signalled = TRUE,
                                !.misapplied = @ \/ ss[i].destroyed]]

\* What a handler works on while it runs: the state with its queued updates,
\* the negotiation objects, what it has emitted on the socket, and the
\* createPeerConnection calls it has made.
Running == [cl |-> cl, sessions |-> sessions, emitted |-> <<>>, calls |-> <<>>]

\* setPeers(m) with a new Map m
SetPeers(st, m) == [st EXCEPT !.cl.peers = m, !.cl.peersNew = TRUE]

\* The provider's createPeerConnection (lines 148-217).  The name in its first
\* statement, `createPeerConnection({initiator, stream, config})`, is bound to
\* the provider's own constant, which shadows the import from
\* services/webrtc: the function re-enters itself with the options object as
\* remotePeerId until the engine throws RangeError.
RECURSIVE CreatePeerConnection(_, _, _, _, _, _)
CreatePeerConnection(depth, st, remotePeerId, localPeerId, stream, incomingOffer) ==
    IF depth >= MaxStack
    THEN [threw |-> TRUE, st |-> st, peer |-> NoPeer]
    ELSE LET made == CreatePeerConnection(depth + 1, st,
                         [initiator |-> (incomingOffer = NoOffer), stream |-> stream],
                         Undefined, Undefined, NoOffer)
         IN  IF made.threw
             THEN made
             ELSE LET peer == made.peer
                      st1 == IF incomingOffer # NoOffer
                             THEN [made.st EXCEPT !.sessions = Signal(@, peer)]
                             ELSE made.st
                  IN  [threw |-> FALSE,
                       st |-> SetPeers(st1, MapSet(st1.cl.peers, remotePeerId, peer)),
                       peer |-> peer]

\* a call of createPeerConnection(remote, socket.id, stream, offer) by a handler
CallCreate(st, remote, stream, offer) ==
    CreatePeerConnection(0,
        [st EXCEPT !.calls = Append(@, remote)],
        remote, LocalId, stream, offer)

\* list.forEach(remoteUser => createPeerConnection(remoteUser.socketId, ...)):
\* the first call that throws ends the loop
RECURSIVE ForEachCreate(_, _, _)
ForEachCreate(st, list, stream) ==
    IF list = <<>>
    THEN [threw |-> FALSE, st |-> st]
    ELSE LET r == CallCreate(st, Head(list).socketId, stream, NoOffer)
         IN  IF r.threw THEN [threw |-> TRUE, st |-> r.st]
             ELSE ForEachCreate(r.st, Tail(list), stream)

\* the handler's effects become the next state; setState on an unmounted
\* component is ignored
Commit(st, op, arg, thrown) ==
    /\ cl' = IF mounted THEN st.cl ELSE cl
    /\ sessions' = st.sessions
    /\ clast' = ClientEvent(op, arg, st.emitted, thrown, st.calls, cl.users)

\* a member record as the server sends it
Member(id) == [socketId |-> id, userId |-> "u1"]

\* the member lists over the connection ids R a roomUsers message may carry
RECURSIVE UserLists(_, _)
UserLists(R, n) ==
    IF n = 0 THEN {<<>>}
    ELSE UserLists(R, n - 1) \cup
         {Append(l, Member(id)) : l \in {x \in UserLists(R, n - 1) : Len(x) = n - 1},
                                  id \in R}

\* socket.on('roomUsers') (lines 69-79)
OnRoomUsers(roomUsers) ==
    /\ mounted
    /\ LET st0 == [Running EXCEPT !.cl.users = roomUsers]
           r == IF rendered.localStream # NoStream
                THEN ForEachCreate(st0, roomUsers, rendered.localStream)
                ELSE [threw |-> FALSE, st |-> st0]
       IN  Commit(r.st, "roomUsers", roomUsers, r.threw)
    /\ UNCHANGED <<rendered, media, mounted, authUser>>

\* socket.on('userJoinedRoom') (lines 82-85)
OnUserJoinedRoom(user) ==
    /\ mounted
    /\ Len(cl.users) < MaxUsers
    /\ Commit([Running EXCEPT !.cl.users = Append(@, user)], "userJoinedRoom", user, FALSE)
    /\ UNCHANGED <<rendered, media, mounted, authUser>>

\* a userLeftRoom handler that leaves the member list as it is
FilterUsersKeepsAll(prev, id) == prev

\* prev.filter(u => u.socketId !== user.socketId) (line 90)
FilterUsers(prev, id) == SelectSeq(prev, LAMBDA u : u.socketId # id)

\* socket.on('userLeftRoom') (lines 88-106): peers and remoteStreams are the
\* maps of the render the listener was registered in
OnUserLeftRoom(user) ==
    /\ mounted
    /\ LET id == user.socketId
           st0 == [Running EXCEPT !.cl.users = FilterUsers(@, id)]
           st1 == IF id \in DOMAIN rendered.peers
                  THEN SetPeers([st0 EXCEPT !.sessions =
                                     DestroyAll(@, {rendered.peers[id]})],
                                MapDelete(rendered.peers, id))
                  ELSE st0
           st2 == IF id \in DOMAIN rendered.remoteStreams
                  THEN [st1 EXCEPT !.cl.remoteStreams =
                                       MapDelete(rendered.remoteStreams, id)]
                  ELSE st1
       IN  Commit(st2, "userLeftRoom", user, FALSE)
    /\ UNCHANGED <<rendered, media, mounted, authUser>>

\* a receiveOffer listener that answers whether or not a stream is held
OnReceiveOfferAlways(from, offer) ==
    /\ mounted
    /\ LET r == CallCreate(Running, from, rendered.localStream, offer)
       IN  Commit(r.st, "receiveOffer", from, r.threw)
    /\ UNCHANGED <<rendered, media, mounted, authUser>>

\* socket.on('receiveOffer') (lines 109-118)
OnReceiveOffer(from, offer) ==
    /\ mounted
    /\ LET r == IF rendered.localStream = NoStream
                THEN [threw |-> FALSE, st |-> Running]
                ELSE CallCreate(Running, from, rendered.localStream, offer)
       IN  Commit(r.st, "receiveOffer", from, r.threw)
    /\ UNCHANGED <<rendered, media, mounted, authUser>>

\* the body shared by the receiveAnswer and receiveIceCandidate listeners:
\* peers.get(from), then peer.signal(...) if there is one
SignalFrom(st, from) ==
    IF from \in DOMAIN rendered.peers
    THEN [st EXCEPT !.sessions = Signal(@, rendered.peers[from])]
    ELSE st

\* socket.on('receiveAnswer') (lines 121-127)
OnReceiveAnswer(from) ==
    /\ mounted
    /\ Commit(SignalFrom(Running, from), "receiveAnswer", from, FALSE)
    /\ UNCHANGED <<rendered, media, mounted, authUser>>

\* socket.on('receiveIceCandidate') (lines 130-135)
OnReceiveIceCandidate(from) ==
    /\ mounted
    /\ Commit(SignalFrom(Running, from), "receiveIceCandidate", from, FALSE)
    /\ UNCHANGED <<rendered, media, mounted, authUser>>

\* the pending getUserMedia requests an endCall, a leaveRoom or an unmount
\* overtakes: the user has gone on while startCall still waits
Overtaken(pending) ==
    [i \in 1..Len(pending) |-> [pending[i] EXCEPT !.cancelled = TRUE]]

\* a sequence without its i-th element
Without(q, i) == SubSeq(q, 1, i - 1) \o SubSeq(q, i + 1, Len(q))

\* joinRoom(roomId) (lines 220-225)
JoinRoomCall(roomId) ==
    /\ mounted
    /\ IF authUser = None
       THEN Commit(Running, "joinRoom", roomId, FALSE)
       ELSE Commit([Running EXCEPT !.cl.currentRoom = roomId,
                                   !.emitted = <<[event |-> "joinRoom", roomId |-> roomId,
                                                  userId |-> authUser]>>],
                   "joinRoom", roomId, FALSE)
    /\ UNCHANGED <<rendered, media, mounted, authUser>>

\* a leaveRoom that keeps the member list
LeftStateKeepsUsers(st) ==
    [SetPeers(st, <<>>) EXCEPT !.cl.currentRoom = None, !.cl.remoteStreams = <<>>]

\* lines 232-238 of leaveRoom: the state it leaves
LeftState(st) ==
    [SetPeers(st, <<>>) EXCEPT !.cl.currentRoom = None, !.cl.users = <<>>,
                               !.cl.remoteStreams = <<>>]

\* leaveRoom() (lines 228-239): currentRoom and peers are those of the render
\* the callback was made in
LeaveRoomCall ==
    /\ mounted
    /\ IF rendered.currentRoom = None \/ authUser = None
       THEN Commit(Running, "leaveRoom", None, FALSE)
       ELSE LET st0 == [Running EXCEPT
                           !.emitted = <<[event |-> "leaveRoom",
                                          roomId |-> rendered.currentRoom,
                                          userId |-> authUser]>>,
                           !.sessions = DestroyAll(@, MapValues(rendered.peers))]
            IN  Commit(LeftState(st0), "leaveRoom", rendered.currentRoom, FALSE)
    /\ media' = [media EXCEPT !.pending = Overtaken(@)]
    /\ UNCHANGED <<rendered, mounted, authUser>>

\* startCall() up to its await (lines 242-247): the request for camera and
\* microphone is pending; users is the list of the render the callback was
\* made in
StartCallCall ==
    /\ mounted
    /\ media.calls < MaxCalls
    /\ media' = [media EXCEPT !.calls = @ + 1,
                              !.pending = Append(@, [users |-> rendered.users,
                                                     cancelled |-> FALSE])]
    /\ clast' = ClientEvent("startCall", None, <<>>, FALSE, <<>>, cl.users)
    /\ UNCHANGED <<cl, rendered, sessions, mounted, authUser>>

\* getUserMedia resolves: the rest of startCall (lines 248-258).  A throw of
\* createPeerConnection is caught, logged and thrown again (lines 259-262).
MediaGranted(i) ==
    /\ i \in 1..Len(media.pending)
    /\ LET stream == media.granted + 1
           st0 == [Running EXCEPT !.cl.localStream = stream, !.cl.isCallActive = TRUE]
           r == ForEachCreate(st0, media.pending[i].users, stream)
       IN  Commit(r.st, "mediaGranted",
                  [stream |-> stream, cancelled |-> media.pending[i].cancelled], r.threw)
    /\ media' = [media EXCEPT !.granted = @ + 1,
                              !.live = @ \cup {media.granted + 1},
                              !.pending = Without(@, i)]
    /\ UNCHANGED <<rendered, mounted, authUser>>

\* getUserMedia rejects: startCall logs and throws the error again
\* (lines 259-262)
MediaDenied(i) ==
    /\ i \in 1..Len(media.pending)
    /\ media' = [media EXCEPT !.pending = Without(@, i)]
    /\ clast' = ClientEvent("mediaDenied", [cancelled |-> media.pending[i].cancelled],
                            <<>>, TRUE, <<>>, cl.users)
    /\ UNCHANGED <<cl, rendered, sessions, mounted, authUser>>

\* an endCall that leaves the call marked active
EndCallKeepsActive(st, seen) ==
    IF seen.localStream = NoStream THEN st
    ELSE [SetPeers([st EXCEPT !.sessions = DestroyAll(@, MapValues(seen.peers))],
                   <<>>)
            EXCEPT !.cl.localStream = NoStream,
                   !.cl.remoteStreams = <<>>]

\* the state updates of endCall() (lines 266-278) as the render `seen` made
\* it
EndCallRun(st, seen) ==
    IF seen.localStream = NoStream THEN st
    ELSE [SetPeers([st EXCEPT !.sessions = DestroyAll(@, MapValues(seen.peers))],
                   <<>>)
            EXCEPT !.cl.localStream = NoStream,
                   !.cl.isCallActive = FALSE,
                   !.cl.remoteStreams = <<>>]

\* endCall() (lines 266-278): localStream and peers are those of the render
\* the callback was made in; line 270 stops the tracks of that stream
EndCallCall ==
    /\ mounted
    /\ Commit(EndCallRun(Running, rendered), "endCall",
              IF rendered.localStream = NoStream THEN None ELSE rendered.localStream,
              FALSE)
    /\ media' = [media EXCEPT !.live = @ \ {rendered.localStream},
                              !.pending = Overtaken(@)]
    /\ UNCHANGED <<rendered, mounted, authUser>>

\* The cleanup of the effect with deps [localStream, peers] (lines 281-289),
\* run with the stream and the peers of the render that set the effect up.
StopTracks(live) == live \ {rendered.localStream}

DestroyRenderedPeers(ss) == DestroyAll(ss, MapValues(rendered.peers))

\* React re-renders the provider with the queued updates.  The effect with
\* deps [localStream, peers] is torn down and set up again when either
\* changed identity; every setPeers of the provider passes a new Map.
Render ==
    /\ mounted
    /\ cl # rendered
    /\ LET deps == rendered.localStream # cl.localStream \/ cl.peersNew
       IN  /\ media' = IF deps THEN [media EXCEPT !.live = StopTracks(@)] ELSE media
           /\ sessions' = IF deps THEN DestroyRenderedPeers(sessions) ELSE sessions
    /\ cl' = [cl EXCEPT !.peersNew = FALSE]
    /\ rendered' = cl'
    /\ clast' = ClientEvent("render", None, <<>>, FALSE, <<>>, cl.users)
    /\ UNCHANGED <<mounted, authUser>>

\* The provider unmounts: the same cleanup runs a last time, the socket is
\* disconnected (lines 52-54) and its listeners are removed (lines 137-144).
Unmount ==
    /\ mounted
    /\ mounted' = FALSE
    /\ media' = [media EXCEPT !.live = StopTracks(@), !.pending = Overtaken(@)]
    /\ sessions' = DestroyRenderedPeers(sessions)
    /\ clast' = ClientEvent("unmount", None, <<>>, FALSE, <<>>, cl.users)
    /\ UNCHANGED <<cl, rendered, authUser>>

\* the messages the server may send to the provider about the connections R
Listeners(R) ==
    \/ \E list \in UserLists(R, MaxUsers) : OnRoomUsers(list) /\ ClientOnly
    \/ \E id \in R : OnUserJoinedRoom(Member(id)) /\ ClientOnly
    \/ \E id \in R : OnUserLeftRoom(Member(id)) /\ ClientOnly
    \/ \E id \in R : OnReceiveOffer(id, "sdp1") /\ ClientOnly
    \/ \E id \in R : OnReceiveAnswer(id) /\ ClientOnly
    \/ \E id \in R : OnReceiveIceCandidate(id) /\ ClientOnly

\* what the page does with the room
RoomCalls ==
    \/ \E r \in ClientRoomIds : JoinRoomCall(r) /\ ClientOnly
    \/ LeaveRoomCall /\ ClientOnly
    \/ Render /\ ClientOnly

\* what the page does with the call, and the answers to getUserMedia
MediaCalls ==
    \/ StartCallCall /\ ClientOnly
    \/ \E i \in 1..MaxCalls : MediaGranted(i) /\ ClientOnly
    \/ \E i \in 1..MaxCalls : MediaDenied(i) /\ ClientOnly
    \/ EndCallCall /\ ClientOnly
    \/ Unmount /\ ClientOnly

\* The provider on its own: the server is whatever sends it messages.
InitClient ==
    /\ connected = {}
    /\ closed = {}
    /\ users = <<>>
    /\ rooms = <<>>
    /\ adapter = [n \in RoomNames |-> {}]
    /\ out = <<>>
    /\ last = Event("init", None, None, None, None, None, None, <<>>)
    /\ threw = FALSE
    /\ \E u \in {None} \cup UserIds : ClientInit(u)
    /\ LinkInit(<<>>)

\* the provider and the room: two remote connections, no call
NextClient == Listeners(RemoteIds) \/ RoomCalls

SpecClient == InitClient /\ [][NextClient]_vars

\* the provider and the call: one remote connection
CallRemoteIds == {"c2"}

NextCall == Listeners(CallRemoteIds) \/ RoomCalls \/ MediaCalls

SpecCall == InitClient /\ [][NextCall]_vars

\* ===================================================================
\*              The provider connected to the server
\* ===================================================================
\* the messages of a handler's output that go to connection c, in order
ToConnection(msgs, c) == SelectSeq(msgs, LAMBDA m : m.to = c)

\* socket.emit on the client: the packets a callback emitted join those in flight
SentUp(emitted) == link.up \o emitted

\* the server's emissions to the client's socket join the packets in flight
SentDown(pending, msgs) == pending \o ToConnection(msgs, link.id)

\* The socket connects (lines 46-50), the first time or again after a drop:
\* the server hands it a new id.  The provider registers no 'connect' or
\* 'disconnect' listener (lines 69-135 register six events), so its state
\* stays as it is.  `fresh` marks a reconnection with no joinRoom buffered.
LinkConnect ==
    /\ link.id = None
    /\ link.gen < Len(LinkIds)
    /\ Connection(LinkIds[link.gen + 1])
    /\ link' = [link EXCEPT !.id = LinkIds[link.gen + 1],
                            !.gen = @ + 1,
                            !.fresh = (link.gen > 0
                                       /\ \A i \in 1..Len(link.up) :
                                              link.up[i].event # "joinRoom")]
    /\ UNCHANGED <<clientVars, tried, page>>

\* The transport drops: the server runs the disconnect handler for the
\* socket, the packets in flight are lost.
LinkDrop ==
    /\ link.id # None
    /\ Disconnect(link.id)
    /\ link' = [link EXCEPT !.id = None, !.up = <<>>, !.down = <<>>, !.fresh = FALSE]
    /\ UNCHANGED <<clientVars, tried, page>>

\* the page calls joinRoom
LinkJoinRoom(roomId) ==
    /\ Len(link.up) < MaxInFlight
    /\ JoinRoomCall(roomId)
    /\ link' = [link EXCEPT !.up = SentUp(clast'.emitted),
                            !.fresh = @ /\ clast'.emitted = <<>>]
    /\ UNCHANGED <<serverVars, tried, page>>

\* the page calls leaveRoom
LinkLeaveRoom ==
    /\ Len(link.up) < MaxInFlight
    /\ LeaveRoomCall
    /\ link' = [link EXCEPT !.up = SentUp(clast'.emitted)]
    /\ UNCHANGED <<serverVars, tried, page>>

\* the server's handler for a packet of the client
Handle(c, msg) ==
    CASE msg.event = "userJoined" -> UserJoined(c, msg.userId)
      [] msg.event = "joinRoom" -> JoinRoom(c, msg.roomId, msg.userId)
      [] msg.event = "leaveRoom" -> LeaveRoom(c, msg.roomId, msg.userId)

\* the server receives the client's next packet
LinkReceive ==
    /\ link.id # None
    /\ link.up # <<>>
    /\ Handle(link.id, Head(link.up))
    /\ Len(SentDown(link.down, out')) <= MaxInFlight
    /\ link' = [link EXCEPT !.up = Tail(@), !.down = SentDown(@, out')]
    /\ UNCHANGED <<clientVars, tried, page>>

\* what a handler run for another connection sends to the client
FromPeer ==
    /\ Len(SentDown(link.down, out')) <= MaxInFlight
    /\ link' = [link EXCEPT !.down = SentDown(@, out')]
    /\ UNCHANGED <<clientVars, tried, page>>

\* the listener the client has registered for a packet of the server
Listen(msg) ==
    CASE msg.event = "roomUsers" -> OnRoomUsers(msg.data)
      [] msg.event = "userJoinedRoom" -> OnUserJoinedRoom(msg.data)
      [] msg.event = "userLeftRoom" -> OnUserLeftRoom(msg.data)

\* the client receives the server's next packet
LinkDeliver ==
    /\ link.down # <<>>
    /\ Listen(Head(link.down))
    /\ link' = [link EXCEPT !.down = Tail(@)]
    /\ Initiated
    /\ UNCHANGED <<serverVars, page>>

\* the provider's socket is created and has buffered userJoined (lines 58-62)
InitLink ==
    /\ connected = {}
    /\ closed = {}
    /\ users = <<>>
    /\ rooms = <<>>
    /\ adapter = [n \in RoomNames |-> {}]
    /\ out = <<>>
    /\ last = Event("init", None, None, None, None, None, None, <<>>)
    /\ threw = FALSE
    /\ ClientInit("u1")
    /\ LinkInit(<<[event |-> "userJoined", userId |-> "u1"]>>)

NextLink ==
    \/ LinkConnect
    \/ LinkDrop
    \/ \E r \in ClientRoomIds : LinkJoinRoom(r)
    \/ LinkLeaveRoom
    \/ Render /\ ClientOnly
    \/ LinkReceive
    \/ \E c \in PeerSockets : Connection(c) /\ FromPeer
    \/ \E c \in PeerSockets, r \in ClientRoomIds, u \in UserIds : JoinRoom(c, r, u) /\ FromPeer
    \/ \E c \in PeerSockets, r \in ClientRoomIds, u \in UserIds : LeaveRoom(c, r, u) /\ FromPeer
    \/ \E c \in PeerSockets : Disconnect(c) /\ FromPeer
    \/ LinkDeliver

SpecLink == InitLink /\ [][NextLink]_vars

\* The provider connected to the server, with a call: the page joins the
\* room and starts the call; the transport stays up and nobody leaves.
NextLinkCall ==
    \/ LinkConnect
    \/ \E r \in ClientRoomIds : LinkJoinRoom(r)
    \/ Render /\ ClientOnly
    \/ LinkReceive
    \/ \E c \in PeerSockets : Connection(c) /\ FromPeer
    \/ \E c \in PeerSockets, r \in ClientRoomIds, u \in UserIds : JoinRoom(c, r, u) /\ FromPeer
    \/ LinkDeliver
    \/ StartCallCall /\ ClientOnly
    \/ \E i \in 1..MaxCalls : MediaGranted(i) /\ ClientOnly

SpecLinkCall == InitLink /\ [][NextLinkCall]_vars

\* ---------------------------------------------------- the VideoCall page
\* The page of src/unnamed/part_002 (lines 37-487) above the provider: it
\* probes the camera, then runs initializeCall from an effect whose deps are
\* callbacks of the provider, so the effect runs again whenever one of them
\* is made anew.

\* useParams().appointmentId, used as the room id (line 139)
AppointmentId == "r1"

\* joinRoom(roomId) (SocketContext.tsx lines 220-225) on a running state
JoinRoomRun(st, roomId) ==
    IF authUser = None THEN st
    ELSE [st EXCEPT !.cl.currentRoom = roomId,
                    !.emitted = @ \o <<[event |-> "joinRoom", roomId |-> roomId,
                                        userId |-> authUser]>>]

\* leaveRoom() (lines 228-239) as the render `seen` made it
LeaveRoomRun(st, seen) ==
    IF seen.currentRoom = None \/ authUser = None THEN st
    ELSE LeftState([st EXCEPT
                       !.emitted = @ \o <<[event |-> "leaveRoom",
                                           roomId |-> seen.currentRoom,
                                           userId |-> authUser]>>,
                       !.sessions = DestroyAll(@, MapValues(seen.peers))])

\* leaveRoom(); socketEndCall() (part_002 lines 165-166 and 229-230) with the
\* callbacks of the last render
CleanupRun(st) == EndCallRun(LeaveRoomRun(st, rendered), rendered)

\* that leaveRoom got past its guard and called setUsers([]) (line 233)
CleanupSetUsers == rendered.currentRoom # None /\ authUser # None

\* the listeners that call setUsers (lines 71, 84, 90): the array is a new one
\* each time, and startCall (deps [socket, users]) is made anew with it
SetUsersCalled == clast'.op \in {"roomUsers", "userJoinedRoom", "userLeftRoom"}

\* a step of the provider the page is subscribed to
PageSees == NoServer /\ page' = [page EXCEPT !.usersNew = @ \/ SetUsersCalled]

\* a step of the page
PageOnly == NoServer

\* checkMediaPermissions (part_002 lines 71-93): the probe stream is stopped
\* at once; a refusal sets the error and leaves hasMediaPermissions false
CheckMediaPermissions(granted) ==
    /\ mounted
    /\ ~page.checked
    /\ page' = [page EXCEPT !.checked = TRUE,
                            !.hasMediaPermissions = granted,
                            !.error = @ \/ ~granted]
    /\ clast' = ClientEvent("checkMediaPermissions", granted, <<>>, FALSE, <<>>, cl.users)
    /\ UNCHANGED <<cl, rendered, sessions, media, mounted, authUser>>

\* an initializeCall run past its guard (line 129), waiting for
\* fetchAppointmentData: users is the list startCall was made with
InitializeCall(seenUsers, afterDenial) == [users |-> seenUsers, afterDenial |-> afterDenial]

\* the deps of the effect of part_002 lines 158-168 that can change:
\* initializeCall (through startCall and roomUsers.length: users; through
\* hasMediaPermissions), leaveRoom (currentRoom, peers), socketEndCall
\* (localStream, peers)
EffectDeps ==
    \/ page.usersNew
    \/ cl.users # rendered.users
    \/ cl.currentRoom # rendered.currentRoom
    \/ cl.peersNew
    \/ cl.localStream # rendered.localStream
    \/ page.hasMediaPermissions # page.seenPermissions

\* React renders the provider and the page with the queued updates.  The
\* provider's effect (SocketContext.tsx lines 281-289) is torn down as in
\* Render.  When a dep of the page's effect changed, its cleanup runs with
\* the callbacks of the previous render, and the effect runs again: with
\* media permissions it calls initializeCall (lines 159-161).
PageRender ==
    /\ mounted
    /\ cl # rendered \/ page.usersNew \/ page.hasMediaPermissions # page.seenPermissions
    /\ LET now == [cl EXCEPT !.peersNew = FALSE]
           provider == rendered.localStream # cl.localStream \/ cl.peersNew
           base == [cl |-> now, sessions |-> sessions, emitted |-> <<>>, calls |-> <<>>]
           st == IF EffectDeps THEN CleanupRun(base) ELSE base
           begins == EffectDeps /\ page.hasMediaPermissions
       IN  /\ begins => page.started < MaxCalls
           /\ rendered' = now
           /\ cl' = st.cl
           /\ sessions' = IF provider THEN DestroyRenderedPeers(st.sessions)
                          ELSE st.sessions
           /\ media' = [media EXCEPT
                           !.live = IF provider \/ EffectDeps THEN StopTracks(@) ELSE @,
                           !.pending = IF EffectDeps THEN Overtaken(@) ELSE @]
           /\ page' = [page EXCEPT
                          !.seenPermissions = page.hasMediaPermissions,
                          !.usersNew = EffectDeps /\ CleanupSetUsers,
                          !.inits = IF begins
                                    THEN Append(@, InitializeCall(now.users, page.denied))
                                    ELSE @,
                          !.started = IF begins THEN @ + 1 ELSE @]
           /\ clast' = ClientEvent("render", None, st.emitted, FALSE, <<>>, cl.users)
    /\ UNCHANGED <<mounted, authUser>>

\* fetchAppointmentData resolved: the rest of initializeCall up to its second
\* await (part_002 lines 136-142): joinRoom(appointmentId), then startCall()
\* up to getUserMedia
AppointmentLoaded(i) ==
    /\ mounted
    /\ i \in 1..Len(page.inits)
    /\ media.calls < MaxCalls
    /\ Commit(JoinRoomRun(Running, AppointmentId), "initializeCall",
              [afterDenial |-> page.inits[i].afterDenial], FALSE)
    /\ media' = [media EXCEPT !.calls = @ + 1,
                              !.pending = Append(@, [users |-> page.inits[i].users,
                                                     cancelled |-> FALSE])]
    /\ page' = [page EXCEPT !.inits = Without(@, i)]
    /\ UNCHANGED <<rendered, mounted, authUser>>

\* fetchAppointmentData failed (part_002 lines 116-121): it sets the error
\* and initializeCall returns (line 136)
AppointmentFailed(i) ==
    /\ mounted
    /\ i \in 1..Len(page.inits)
    /\ page' = [page EXCEPT !.inits = Without(@, i), !.error = TRUE]
    /\ clast' = ClientEvent("fetchFailed", None, <<>>, FALSE, <<>>, cl.users)
    /\ UNCHANGED <<cl, rendered, sessions, media, mounted, authUser>>

\* startCall resolved for initializeCall (part_002 lines 142-154): a throw of
\* createPeerConnection reaches the catch as a refusal does
PageMediaGranted(i) ==
    /\ MediaGranted(i)
    /\ page' = [page EXCEPT !.error = @ \/ clast'.threw]

\* startCall rejected for initializeCall: the catch of part_002 lines 150-154
\* sets the error
PageMediaDenied(i) ==
    /\ MediaDenied(i)
    /\ page' = [page EXCEPT !.error = TRUE, !.denied = TRUE]

\* handleRetry (part_002 lines 224-236), the Retry button: the error is
\* cleared, the room and the call are left with the callbacks of the last
\* render, and initializeCall is called by a timer; the timer and the fetch
\* are one wait here
HandleRetry ==
    /\ mounted
    /\ page.seenPermissions => page.started < MaxCalls
    /\ Commit(CleanupRun(Running), "handleRetry", None, FALSE)
    /\ media' = [media EXCEPT !.live = StopTracks(@), !.pending = Overtaken(@)]
    /\ page' = [page EXCEPT
                   !.error = FALSE,
                   !.denied = FALSE,
                   !.usersNew = @ \/ CleanupSetUsers,
                   !.inits = IF page.seenPermissions
                             THEN Append(@, InitializeCall(rendered.users, FALSE))
                             ELSE @,
                   !.started = IF page.seenPermissions THEN @ + 1 ELSE @]
    /\ UNCHANGED <<rendered, mounted, authUser>>

\* the page mounted under the provider, before its probe is answered
InitPage ==
    /\ connected = {}
    /\ closed = {}
    /\ users = <<>>
    /\ rooms = <<>>
    /\ adapter = [n \in RoomNames |-> {}]
    /\ out = <<>>
    /\ last = Event("init", None, None, None, None, None, None, <<>>)
    /\ threw = FALSE
    /\ ClientInit("u1")
    /\ LinkInit(<<>>)

\* the page, the provider and what the server tells about the other member
NextPage ==
    \/ \E granted \in BOOLEAN : CheckMediaPermissions(granted) /\ PageOnly
    \/ PageRender /\ PageOnly
    \/ \E i \in 1..MaxCalls : AppointmentLoaded(i) /\ PageOnly
    \/ \E i \in 1..MaxCalls : AppointmentFailed(i) /\ PageOnly
    \/ \E i \in 1..MaxCalls : PageMediaGranted(i) /\ PageOnly
    \/ \E i \in 1..MaxCalls : PageMediaDenied(i) /\ PageOnly
    \/ HandleRetry /\ PageOnly
    \/ \E list \in UserLists(CallRemoteIds, MaxUsers) : OnRoomUsers(list) /\ PageSees
    \/ \E id \in CallRemoteIds : OnUserJoinedRoom(Member(id)) /\ PageSees
    \/ \E id \in CallRemoteIds : OnUserLeftRoom(Member(id)) /\ PageSees

SpecPage == InitPage /\ [][NextPage]_vars

\* ===================================================================
\*                              Properties
\* ===================================================================
SendOps == {"sendOffer", "sendAnswer", "sendIceCandidate"}

\* how many messages of `out` go to d, are the event ev and carry socketId sid
Count(d, ev, sid) ==
    Cardinality({i \in 1..Len(out) :
                    /\ out[i].to = d
                    /\ out[i].event = ev
                    /\ out[i].data.socketId = sid})

\* the connections that receive some message of `out`
Recipients == {out[i].to : i \in 1..Len(out)}

\* C1: no room's member list holds two entries with the same socketId.
NoDuplicateMember ==
    \A k \in 1..Len(rooms) :
        LET m == rooms[k].members
        IN  \A i, j \in 1..Len(m) : m[i].socketId = m[j].socketId => i = j

\* C2: a room id is a key of the rooms registry exactly when it has a
\* non-empty member list: no key maps to an empty list (and no key is listed twice).
RoomExistsIffNonEmpty ==
    /\ \A k \in 1..Len(rooms) : Len(rooms[k].members) > 0
    /\ \A k, l \in 1..Len(rooms) : rooms[k].key = rooms[l].key => k = l

\* C2 witness: a joinRoom into an unknown room has created it with its first member.
RoomCreatedWithFirstMember ==
    /\ last.op = "joinRoom"
    /\ last.before = <<>>
    /\ HasRoom(rooms, last.roomId)
    /\ Members(rooms, last.roomId) = <<[socketId |-> last.sid, userId |-> last.userId]>>

\* C3: every message a sendOffer / sendAnswer / sendIceCandidate handler
\* forwards carries `from` equal to the sender's own socket id.
ForwardedFromIsSender ==
    last.op \in SendOps => \A i \in 1..Len(out) : out[i].data.from = last.sid

\* C3 witness: an envelope whose `from` names another, live connection was forwarded.
SpoofedFromForwarded ==
    /\ last.op \in SendOps
    /\ last.from # last.sid
    /\ last.from \in connected
    /\ out # <<>>

\* C4: a signaling envelope with `to` = T is delivered to the connection T and
\* to no other connection.
DeliveredOnlyToTarget ==
    last.op \in SendOps =>
        /\ Recipients \subseteq {last.to}
        /\ last.to \in connected => Len(out) = 1

\* C5: an envelope whose `to` names no live connection is delivered to nobody,
\* yields no message to the sender and leaves users and rooms unchanged.
StaleTargetDropped ==
    [][(last'.op \in SendOps /\ last'.to \notin connected') =>
            /\ out' = <<>>
            /\ users' = users
            /\ rooms' = rooms]_vars

\* C6: on joinRoom(R) by C, C alone receives roomUsers, which lists the members
\* R had before the join without C, and exactly the connections that were
\* members of R before the join, other than C, receive one userJoinedRoom
\* carrying C's id.
JoinDelivery ==
    last.op = "joinRoom" =>
        LET c == last.sid
            others == SelectSeq(last.before, LAMBDA e : e.socketId # c)
        IN  /\ Cardinality({i \in 1..Len(out) : out[i].event = "roomUsers"}) = 1
            /\ \A i \in 1..Len(out) :
                   out[i].event = "roomUsers" => out[i].to = c /\ out[i].data = others
            /\ \A i \in 1..Len(out) : out[i].event \in {"roomUsers", "userJoinedRoom"}
            /\ \A d \in Sockets :
                   Count(d, "userJoinedRoom", c) =
                       IF d \in MemberIds(last.before) \ {c} THEN 1 ELSE 0

\* C7: in every joinRoom handled for C in room R, for every other connection D
\* that has joined R, C learns of D through its roomUsers snapshot and D learns
\* of C through a userJoinedRoom notification, never the other way round, never
\* neither; and nobody is in the snapshot without being sent the notification.
JoinViewsAgree ==
    last.op = "joinRoom" =>
        LET c == last.sid
            InSnapshot(d) == \E i \in 1..Len(out) :
                                 /\ out[i].event = "roomUsers"
                                 /\ out[i].to = c
                                 /\ d \in MemberIds(out[i].data)
            Notified(d) == Count(d, "userJoinedRoom", c) > 0
        IN  \A d \in Sockets \ {c} :
                /\ d \in MemberIds(last.before) => InSnapshot(d) /\ Notified(d)
                /\ InSnapshot(d) => Notified(d)
                /\ \A i \in 1..Len(out) : out[i].event = "roomUsers" => out[i].to # d
                /\ \A i \in 1..Len(out) : out[i].event = "userJoinedRoom" => out[i].to # c

\* C7 witness: a connection joined a room another connection had joined, while
\* a third connection is live outside the room.
JoinedAfterAnother ==
    /\ last.op = "joinRoom"
    /\ MemberIds(last.before) \ {last.sid} # {}
    /\ connected \ (MemberIds(last.before) \cup {last.sid}) # {}

\* C8: leaveRoom(R) by a connection that is not a member of R leaves rooms and
\* users as they were and raises no error.
LeaveByNonMemberNoOp ==
    [][(last'.op = "leaveRoom" /\ last'.sid \notin MemberIds(last'.before)) =>
            /\ rooms' = rooms
            /\ users' = users
            /\ ~threw']_vars

\* C9: leaveRoom(R) by a connection that is not a member of R emits no
\* userLeftRoom.
LeaveByNonMemberSilent ==
    (last.op = "leaveRoom" /\ last.sid \notin MemberIds(last.before)) =>
        \A i \in 1..Len(out) : out[i].event # "userLeftRoom"

\* C10: leaveRoom(R) by a member C removes every entry of C from R's list; if
\* that empties R the room is deleted and nothing is sent, otherwise every
\* remaining member receives exactly one userLeftRoom carrying C's id and C
\* receives none.
LeaveByMember ==
    (last.op = "leaveRoom" /\ last.sid \in MemberIds(last.before)) =>
        LET c == last.sid
            r == last.roomId
            rest == MemberIds(last.before) \ {c}
        IN  /\ HasRoom(rooms, r) => c \notin MemberIds(Members(rooms, r))
            /\ rest = {} => ~HasRoom(rooms, r) /\ out = <<>>
            /\ rest # {} =>
                   /\ HasRoom(rooms, r)
                   /\ MemberIds(Members(rooms, r)) = rest
                   /\ Len(Members(rooms, r)) =
                          Cardinality({i \in 1..Len(last.before) :
                                          last.before[i].socketId # c})
                   /\ \A d \in rest : Count(d, "userLeftRoom", c) = 1
                   /\ c \notin Recipients

\* C10 witness: a member left a room in which another member stayed and was
\* notified.
MemberLeftOthersNotified ==
    /\ last.op = "leaveRoom"
    /\ last.sid \in MemberIds(last.before)
    /\ MemberIds(last.before) \ {last.sid} # {}
    /\ out # <<>>

\* the rooms of registry rs that list connection c
RoomsOf(rs, c) == {r \in RoomIds : c \in MemberIds(MembersOrEmpty(rs, r))}

\* C11: when a connection that is a member of several rooms disconnects, it
\* is removed from each of them, each of them produces exactly one
\* userLeftRoom for it, addressed to that room's remaining members (so a
\* connection receives one per room it shared with the leaver and no other),
\* and the rooms it was not a member of keep their lists.
DisconnectCleansRooms ==
    last.op = "disconnect" =>
        LET c == last.sid
            was == RoomsOf(last.before, c)
        IN  /\ \A r \in was :
                   MemberIds(MembersOrEmpty(rooms, r)) =
                       MemberIds(MembersOrEmpty(last.before, r)) \ {c}
            /\ \A r \in RoomIds \ was :
                   MembersOrEmpty(rooms, r) = MembersOrEmpty(last.before, r)
            /\ \A d \in Sockets :
                   Count(d, "userLeftRoom", c) =
                       Cardinality({r \in was :
                           d \in MemberIds(MembersOrEmpty(last.before, r)) \ {c}})

\* C12: every member entry of every room and every key of users names a live
\* connection.
RegistryRefersToLive ==
    /\ \A k \in 1..Len(rooms) : MemberIds(rooms[k].members) \subseteq connected
    /\ DOMAIN users \subseteq connected

\* C12 witness: a connection with an identity mapping and a room membership
\* has disconnected while another room member stays.
IdentifiedMemberDisconnected ==
    /\ last.op = "disconnect"
    /\ last.userId # None
    /\ RoomsOf(last.before, last.sid) # {}
    /\ rooms # <<>>

\* C13: a joinRoom(R2) by a member of another room R1 leaves R1's member list
\* as it was and sends no userLeftRoom.
JoinKeepsOtherRoom ==
    [][last'.op = "joinRoom" =>
          \A r1 \in RoomIds \ {last'.roomId} :
              last'.sid \in MemberIds(MembersOrEmpty(rooms, r1)) =>
                  /\ MembersOrEmpty(rooms', r1) = MembersOrEmpty(rooms, r1)
                  /\ \A i \in 1..Len(out') : out'[i].event # "userLeftRoom"]_vars

\* C13 witness: a member of one room has just joined another and is in both.
JoinedSecondRoom ==
    /\ last.op = "joinRoom"
    /\ \E r1 \in RoomIds \ {last.roomId} :
           /\ last.sid \in MemberIds(MembersOrEmpty(rooms, r1))
           /\ MemberIds(MembersOrEmpty(rooms, r1)) \ {last.sid} # {}


\* ---- the provider ----
ListedIds(list) == {list[i].socketId : i \in 1..Len(list)}

\* C15: the tracks of the local capture stream are stopped only when the
\* whole call ends: a step that stops the tracks of the stream the provider
\* holds is an endCall or the provider's unmount, never a step that only
\* follows a change of the peers map.
LocalTracksStoppedOnlyAtCallEnd ==
    [][(/\ cl.localStream # NoStream
        /\ cl.localStream \in media.live
        /\ cl.localStream \notin media'.live)
       => clast'.op \in {"endCall", "unmount"}]_vars

\* C16: once userLeftRoom for connection X is handled, X is in neither the
\* peers map nor the remoteStreams map nor the member list, and the
\* negotiation objects for X are destroyed.
UserLeftHandled ==
    clast.op = "userLeftRoom" =>
        LET X == clast.arg.socketId
        IN  /\ X \notin DOMAIN cl.peers
            /\ X \notin DOMAIN cl.remoteStreams
            /\ X \notin ListedIds(cl.users)
            /\ \A i \in 1..Len(sessions) : sessions[i].remote = X => sessions[i].destroyed

\* userLeftRoom was handled for a listed member, and another member stays listed
ListedMemberLeft ==
    /\ clast.op = "userLeftRoom"
    /\ clast.arg.socketId \in ListedIds(clast.before)
    /\ cl.users # <<>>

\* C18: leaveRoom with a user and a current room emits leaveRoom for that
\* room, destroys every negotiation object of the peers map and leaves
\* currentRoom null and users, peers and remoteStreams empty; without a
\* current room it emits nothing and changes no state.
LeaveRoomEffects ==
    [][clast'.op = "leaveRoom" =>
         IF rendered.currentRoom # None /\ authUser # None
         THEN /\ clast'.emitted = <<[event |-> "leaveRoom", roomId |-> rendered.currentRoom,
                                    userId |-> authUser]>>
              /\ \A k \in DOMAIN rendered.peers : sessions'[rendered.peers[k]].destroyed
              /\ cl'.currentRoom = None
              /\ cl'.users = <<>>
              /\ cl'.peers = <<>>
              /\ cl'.remoteStreams = <<>>
         ELSE /\ clast'.emitted = <<>>
              /\ cl' = cl
              /\ sessions' = sessions]_vars

\* leaveRoom left a room in which members were listed
LeftRoomWithMembers ==
    /\ clast.op = "leaveRoom"
    /\ clast.emitted # <<>>
    /\ clast.before # <<>>

\* C20: when getUserMedia resolves for a startCall that an endCall, a
\* leaveRoom or an unmount has overtaken, the granted stream has no live
\* track, isCallActive is false and createPeerConnection was not called.
OvertakenStartCallLeavesNoCall ==
    (clast.op = "mediaGranted" /\ clast.arg.cancelled) =>
        /\ clast.arg.stream \notin media.live
        /\ ~cl.isCallActive
        /\ clast.calls = <<>>


\* ---- identity map and relay ----
\* C26: a user id is recorded for at most one connection in the users map.
OneConnectionPerUser ==
    \A a, b \in DOMAIN users : users[a] = users[b] => a = b

\* the receive event that forwards a send event, and the payload it carries
ReceiveEvent(op) ==
    CASE op = "sendOffer" -> "receiveOffer"
      [] op = "sendAnswer" -> "receiveAnswer"
      [] op = "sendIceCandidate" -> "receiveIceCandidate"

Carried(msg) ==
    CASE msg.event = "receiveOffer" -> msg.data.offer
      [] msg.event = "receiveAnswer" -> msg.data.answer
      [] msg.event = "receiveIceCandidate" -> msg.data.candidate

\* C27: a sendOffer / sendAnswer / sendIceCandidate handler leaves the users
\* map and the rooms registry as they were, and every message it forwards is
\* the matching receive event with the sender's payload unmodified.
RelayStateless ==
    [][last'.op \in SendOps =>
         /\ users' = users
         /\ rooms' = rooms
         /\ \A i \in 1..Len(out') :
                /\ out'[i].event = ReceiveEvent(last'.op)
                /\ Carried(out'[i]) = last'.payload]_vars

\* C27 witness: an envelope was forwarded while users and rooms were populated
RelayedWithRegistryPopulated ==
    /\ last.op \in SendOps
    /\ out # <<>>
    /\ rooms # <<>>
    /\ DOMAIN users # {}

\* C30: every call of the provider's createPeerConnection returns, with one
\* negotiation object for the remote id stored in the peers map.
CreatePeerConnectionReturns ==
    clast.calls # <<>> =>
        /\ ~clast.threw
        /\ \A i \in 1..Len(clast.calls) :
              /\ clast.calls[i] \in DOMAIN cl.peers
              /\ cl.peers[clast.calls[i]] \in 1..Len(sessions)


\* ---- the provider connected to the server ----
\* C23: after the transport dropped and the socket reconnected under a new
\* id, and until the client sends a joinRoom again, its member list, current
\* room, peers and remoteStreams are empty and the new connection is a member
\* of no room.
ReconnectDiscardsMembership ==
    link.fresh =>
        /\ cl.users = <<>>
        /\ cl.currentRoom = None
        /\ cl.peers = <<>>
        /\ cl.remoteStreams = <<>>
        /\ RoomsOf(rooms, link.id) = {}

\* no packet is in flight between the client, on its first connection, and
\* the server
Quiet ==
    /\ link.gen = 1
    /\ link.id # None
    /\ link.up = <<>>
    /\ link.down = <<>>

\* C28: with no packet in flight, a client in no room lists no member, and a
\* client whose current room is R lists the connection ids of R's registry
\* members other than itself.
LocalViewMatchesRegistry ==
    Quiet =>
        IF cl.currentRoom = None
        THEN cl.users = <<>>
        ELSE ListedIds(cl.users)
                 = MemberIds(MembersOrEmpty(rooms, cl.currentRoom)) \ {link.id}


\* ---- call establishment ----
\* the live negotiation objects the client holds for remote id c
LiveSessions(c) == {k \in 1..Len(sessions) : sessions[k].remote = c /\ ~sessions[k].destroyed}

\* The client and the other connection are members of room r1, the client
\* holds a live capture stream from a startCall that has settled, and nothing
\* is left to happen: no packet in flight, no getUserMedia pending, no
\* re-render due.
Settled ==
    /\ Quiet
    /\ media.calls > 0
    /\ media.pending = <<>>
    /\ cl = rendered
    /\ cl.currentRoom = "r1"
    /\ cl.localStream \in media.live
    /\ ({link.id} \cup PeerSockets) \subseteq MemberIds(MembersOrEmpty(rooms, "r1"))

\* C24: once the client has asked for an initiator session toward a member
\* and everything sent has been delivered, it holds a remote stream of that
\* member, backed by exactly one session.
InitiatedCallConnects ==
    Settled => \A c \in tried :
                   /\ c \in DOMAIN cl.remoteStreams
                   /\ Cardinality(LiveSessions(c)) = 1

\* C25: once both are members of the room, the client's startCall has
\* acquired local media and everything sent has been delivered, the client
\* holds a peer session with the other member.
MembersWithMediaGetSession ==
    Settled => \A c \in PeerSockets : c \in DOMAIN cl.peers /\ LiveSessions(c) # {}


\* C29: a client that has asked for an initiator session toward P and then
\* handles an offer from P holds two live sessions for P afterwards, the
\* initiator one and a non-initiator one made for the offer.
GlareFormsCollidingSessions ==
    (clast.op = "receiveOffer" /\ clast.arg \in tried /\ clast.calls # <<>>) =>
        /\ \E k \in LiveSessions(clast.arg) : sessions[k].initiator
        /\ \E k \in LiveSessions(clast.arg) : ~sessions[k].initiator

\* C21: when camera/microphone access is refused, startCall fails with the
\* error propagated to its caller (the page shows it), localStream and
\* isCallActive stay as they were, no peer session is created, and no
\* initializeCall begun by the effect after the refusal calls startCall again
\* (only the Retry button does).
MediaAccessDenied ==
    [][/\ clast'.op = "mediaDenied" =>
            /\ clast'.threw
            /\ page'.error
            /\ cl' = cl
            /\ sessions' = sessions
       /\ clast'.op = "initializeCall" => ~clast'.arg.afterDenial]_vars

\* C34: an endCall whose callback sees a local stream stops the tracks of
\* that stream, sets localStream to null and isCallActive to false, destroys
\* every peer session of the peers map and empties the peers and
\* remoteStreams maps; an endCall whose callback sees no local stream changes
\* no state, stops no track and destroys no session.
EndCallEffects ==
    [][clast'.op = "endCall" =>
          IF rendered.localStream # NoStream
          THEN /\ rendered.localStream \notin media'.live
               /\ cl'.localStream = NoStream
               /\ ~cl'.isCallActive
               /\ \A i \in MapValues(rendered.peers) : sessions'[i].destroyed
               /\ cl'.peers = <<>>
               /\ cl'.remoteStreams = <<>>
          ELSE /\ cl' = cl
               /\ sessions' = sessions
               /\ media'.live = media.live]_vars

\* an endCall has ended a call whose stream was live and shown as active
CallEnded ==
    /\ clast.op = "endCall"
    /\ rendered.isCallActive
    /\ rendered.localStream # NoStream
    /\ cl.localStream = NoStream

\* C35: a receiveOffer handled while the client holds no local capture stream
\* creates no peer session, sends nothing and changes no client state, and a
\* listener that sees no stream does not even call createPeerConnection; the
\* roomUsers listener calls createPeerConnection, and so creates sessions,
\* only when it sees a local stream.
NoStreamNoSession ==
    [][/\ (clast'.op = "receiveOffer"
           /\ (cl.localStream = NoStream \/ rendered.localStream = NoStream))
          => /\ sessions' = sessions
             /\ clast'.emitted = <<>>
             /\ cl' = cl
       /\ (clast'.op \in {"receiveOffer", "roomUsers"} /\ rendered.localStream = NoStream)
          => /\ clast'.calls = <<>>
             /\ ~clast'.threw
             /\ sessions' = sessions]_vars

\* an offer arrived from a listed member while no stream was held, and so did
\* nothing
OfferWithoutStream ==
    /\ clast.op = "receiveOffer"
    /\ rendered.localStream = NoStream
    /\ cl.localStream = NoStream
    /\ clast.arg \in ListedIds(cl.users)
    /\ clast.calls = <<>>

\* the user ids of the member records of connection c in the list members
RecordedFor(members, c) ==
    {members[i].userId : i \in {j \in 1..Len(members) : members[j].socketId = c}}

\* the user ids recorded for the connection of the last handler when it
\* joined: in the room it leaves, or in any room at its disconnect
RecordedAtJoin ==
    IF last.op = "leaveRoom" THEN RecordedFor(last.before, last.sid)
    ELSE UNION {RecordedFor(last.before[i].members, last.sid) :
                   i \in 1..Len(last.before)}

\* C36: every userLeftRoom notification for a connection C that was a member
\* of the room carries the userId recorded for C when it joined the room,
\* after a leaveRoom as after a disconnect, whatever userId the leaveRoom
\* payload supplied.
LeftNoticeCarriesRecordedUser ==
    (last.op \in {"leaveRoom", "disconnect"} /\ RecordedAtJoin # {}) =>
        \A i \in 1..Len(out) :
            out[i].event = "userLeftRoom" => out[i].data.userId \in RecordedAtJoin

\* the connections that are members of a room other than R
MembersElsewhere(rs, R) ==
    UNION {MemberIds(MembersOrEmpty(rs, r)) : r \in RoomIds \ {R}}

\* C37: joinRoom(R) and leaveRoom(R) leave the users map and the member list
\* of every room other than R as they were, and no userJoinedRoom or
\* userLeftRoom goes to a member of another room that is not a member of R.
JoinLeaveTouchOnlyTheirRoom ==
    [][last'.op \in {"joinRoom", "leaveRoom"} =>
          LET R == last'.roomId
              inR == MemberIds(MembersOrEmpty(rooms, R))
                         \cup MemberIds(MembersOrEmpty(rooms', R))
          IN  /\ users' = users
              /\ \A r \in RoomIds \ {R} :
                     MembersOrEmpty(rooms', r) = MembersOrEmpty(rooms, r)
              /\ \A i \in 1..Len(out') :
                     (/\ out'[i].event \in {"userJoinedRoom", "userLeftRoom"}
                      /\ out'[i].to \in MembersElsewhere(rooms, R))
                     => out'[i].to \in inR]_vars

====
